---- MODULE Spec2Model ----
(***************************************************************************)
(* Request orchestration layer of src/server/server.js: the per-IP gate    *)
(* (ipLocks, recentRequests), the strategy chain of runSafeYtDlp, the      *)
(* classification of a yt-dlp run in executeYtDlp, the proxy health        *)
(* registry and the metadata cache of POST /api/video-info.                *)
(*                                                                         *)
(* Node runs every handler to its next await without interruption, so one  *)
(* action is one such run: from the arrival of a request to its first      *)
(* await, or from the event that resumes it (timer, 'close', 'error') to   *)
(* the next await or to the response.                                      *)
(*                                                                         *)
(* express-rate-limit (server.js 291-298) sits in front of the handlers    *)
(* and only keeps requests away from them; the arrivals modelled here are  *)
(* the requests that reach a handler.                                      *)
(***************************************************************************)
EXTENDS Integers, Sequences, FiniteSets, TLC

\* ---------------------------------------------------------------- bounds

\* req.ip of the callers
Clients == {"c1"}
\* source locators sent by the callers
Urls == {"u1", "u2"}
\* async invocations of a route handler that may be suspended at once
Slots == {1, 2}
\* yt-dlp processes of /api/stream-download that may run at once
StreamSlots == {1}
\* Date.now() at start-up, how far one Tick moves it, and where it stops
StartMs == 1
TickMs == 7500
MaxTime == 15010
\* configurations of PROXY_URL / PROXY_POOL (server.js 27-28)
Pools == {<< >>, <<"p1">>}

\* ------------------------------------------------------ program constants

COOLDOWN_MS == 15000
CACHE_TTL_MS == 60000
BAN_MS == 10 * 60 * 1000
BAN_FAILS == 2

Strategies == <<"Android Client", "iOS Client", "Web Client">>

\* ------------------------------------------------------------- JS values

Undefined == "undefined"
Null == "null"
NullError == [message |-> Null, stderr |-> Undefined]

\* how a promise settled: with a value, or with an error thrown
Returned(value) == [ok |-> TRUE, value |-> value, error |-> NullError]
Threw(error) == [ok |-> FALSE, value |-> "", error |-> error]
\* the response of a request that never called runSafeYtDlp
NoRun == [ok |-> FALSE, value |-> "", error |-> NullError]

\* a JS Map: the function from its keys to their values
EmptyMap == [k \in {} |-> k]
MapHas(m, k) == k \in DOMAIN m
MapSet(m, k, v) == [x \in DOMAIN m \cup {k} |-> IF x = k THEN v ELSE m[x]]
MapDelete(m, k) == [x \in DOMAIN m \ {k} |-> m[x]]

\* truthiness of a string-or-undefined value
Truthy(s) == s \notin {Undefined, Null, ""}

\* ------------------------------------------------- the yt-dlp subprocess

\* What yt-dlp wrote to stderr. Its diagnostics are lines that start with a
\* tag such as "ERROR:"; the samples are one line without any marker the
\* code looks for and one line for each kind of marker.
Stderrs ==
    { "",
      "ERROR: Video unavailable",
      "ERROR: Sign in to confirm you're not a bot",
      "ERROR: HTTP Error 429: Too Many Requests",
      "ERROR: network is unreachable" }

\* String.prototype.includes on the samples
Includes(s, marker) ==
    CASE marker = "Sign in to confirm" ->
            s = "ERROR: Sign in to confirm you're not a bot"
      [] marker = "bot" ->
            s = "ERROR: Sign in to confirm you're not a bot"
      [] marker = "429" ->
            s = "ERROR: HTTP Error 429: Too Many Requests"
      [] marker = "network" ->
            s = "ERROR: network is unreachable"
      [] OTHER -> FALSE

\* What yt-dlp wrote to stdout: nothing, blank space, a JSON document (-J),
\* or lines of media URLs (-g); each as written, with its line ends.
JsonDocs == {"{A}", "{B}"}
Stdouts == {"", " \n", "{A}\n", "https://v/1\nhttps://a/1\n"}

\* String.prototype.trim on the samples
Trim(s) ==
    CASE s = " \n" -> ""
      [] s = "{A}\n" -> "{A}"
      [] s = "{B}\n" -> "{B}"
      [] s = "https://v/1\nhttps://a/1\n" -> "https://v/1\nhttps://a/1"
      [] OTHER -> s

\* output.split('\n')[0] on the trimmed samples
FirstLine(s) ==
    CASE s = "https://v/1\nhttps://a/1" -> "https://v/1"
      [] OTHER -> s

\* The events that end a spawned process: 'close' after a clean exit (with
\* or without a warning on stderr), 'close' after a failed exit, and 'error'
\* when the process could not be started.
NoEvent == [type |-> "", code |-> -1, stdout |-> "", stderr |-> ""]
ProcEvents ==
    [type : {"close"}, code : {0}, stdout : Stdouts,
     stderr : {"", "ERROR: Sign in to confirm you're not a bot"}]
    \cup
    [type : {"close"}, code : {1}, stdout : {""}, stderr : Stderrs]
    \cup
    [type : {"error"}, code : {-1}, stdout : {""}, stderr : {""}]

\* The outcome of one attempt in the words of the design (ExtractionOutcome):
\* read off the event itself, not off what the code made of it.
HasBotMarker(text) ==
    \/ Includes(text, "Sign in to confirm")
    \/ Includes(text, "bot")
    \/ Includes(text, "429")
Outcome(ev) ==
    CASE ev.type = "error" -> "SpawnFailed"
      [] ev.type = "close" /\ ev.code = 0 /\ Trim(ev.stdout) = "" -> "EmptyOutput"
      [] ev.type = "close" /\ ev.code = 0 /\ Trim(ev.stdout) # "" -> "Success"
      [] ev.type = "close" /\ ev.code # 0 /\ HasBotMarker(ev.stderr) ->
            "BotDetected"
      [] ev.type = "close" /\ ev.code # 0 /\ ~HasBotMarker(ev.stderr)
            /\ Includes(ev.stderr, "network") -> "TransientFailure"
      [] OTHER -> "FatalFailure"

\* executeYtDlp looking for the markers whatever the exit code
executeYtDlpAnyExit(ev) ==
    IF ev.type = "error"
    THEN Threw([message |-> "spawn yt-dlp ENOENT", stderr |-> Undefined])
    ELSE IF \/ Includes(ev.stderr, "Sign in to confirm")
            \/ Includes(ev.stderr, "bot")
            \/ Includes(ev.stderr, "429")
    THEN Threw([message |-> "BOT_DETECTED", stderr |-> ev.stderr])
    ELSE IF ev.code # 0
    THEN Threw([message |-> IF Truthy(Trim(ev.stderr))
                            THEN Trim(ev.stderr)
                            ELSE "Exit code 1",
                stderr |-> Undefined])
    ELSE Returned(Trim(ev.stdout))

\* executeYtDlp (server.js 121-149): the promise's settlement on the event
executeYtDlp(ev) ==
    IF ev.type = "error"
    THEN Threw([message |-> "spawn yt-dlp ENOENT", stderr |-> Undefined])
    ELSE IF ev.code # 0
    THEN IF \/ Includes(ev.stderr, "Sign in to confirm")
            \/ Includes(ev.stderr, "bot")
            \/ Includes(ev.stderr, "429")
         THEN Threw([message |-> "BOT_DETECTED", stderr |-> ev.stderr])
         ELSE Threw([message |-> IF Truthy(Trim(ev.stderr))
                                 THEN Trim(ev.stderr)
                                 ELSE "Exit code 1",
                     stderr |-> Undefined])
    ELSE Returned(Trim(ev.stdout))

\* ShouldRetry going on to the next strategy after any error
ShouldRetryAny(error) == TRUE

\* runSafeYtDlp's test for trying the next strategy (server.js 246)
ShouldRetry(error) ==
    \/ error.message = "BOT_DETECTED"
    \/ /\ Truthy(error.stderr)
       /\ \/ Includes(error.stderr, "429")
          \/ Includes(error.stderr, "network")

\* ------------------------------------------------------------ the state

VARIABLES
    now,             \* Date.now()
    PROXY_POOL,      \* the configured proxies, in order
    proxyHealth,     \* Map: proxy -> [fails, bannedUntil]
    ipLocks,         \* Map: ip -> true, as the set of its keys
    recentRequests,  \* Map: ip -> [url, time]
    videoCache,      \* Map: url -> [time, data]
    reqs,            \* the suspended handler invocations
    resp,            \* the response written by the step just taken
    seen,            \* history: ip -> the requests that reached the gate
    gate,            \* the gate's decision in the step just taken
    streams,         \* the yt-dlp processes piped by /api/stream-download
    reg              \* history of the calls made to the proxy registry

vars == <<now, PROXY_POOL, proxyHealth, ipLocks, recentRequests, videoCache,
          reqs, resp, seen, gate, streams, reg>>

IdleReq ==
    [pc |-> "idle", ip |-> "", url |-> "", ep |-> "", idx |-> 0,
     proxy |-> Null, lastError |-> NullError, spawns |-> 0, log |-> << >>,
     outcomes |-> << >>, ev |-> NoEvent, gone |-> FALSE]

NoResp ==
    [status |-> 0, ip |-> "", url |-> "", ep |-> "", body |-> "",
     run |-> NoRun, spawns |-> 0, log |-> << >>, outcomes |-> << >>,
     ev |-> NoEvent, gone |-> FALSE]

\* gate: what runSafeYtDlp decided for the request (ip, url), whether ip
\* held the lock, and how long before it ip last called runSafeYtDlp at all
\* (lastUrl, sinceLast) and for this url (sinceSame); -1: never
NoGate ==
    [ip |-> "", url |-> "", decision |-> "", busy |-> FALSE, lastUrl |-> "",
     sinceLast |-> -1, sinceSame |-> -1]

\* a stream slot: the process spawned by /api/stream-download (pc: idle,
\* piping, killed; down once the server is gone), its argument list, the
\* proxy it was given, the file name announced to the caller, and whether
\* the caller is still connected
IdleStream ==
    [pc |-> "idle", ip |-> "", url |-> "", itag |-> "", proxy |-> Null,
     title |-> << >>, filename |-> << >>, client |-> "", args |-> << >>]

\* reg: the call of getHealthyProxy / markProxyBad made in the step just
\* taken (op, proxy, the shuffle, proxyHealth before the call), and per proxy
\* the attempts that hold it (uses), the failures reported since its last
\* successful attempt (streak) and when the second of them was reported
NoCall == [op |-> "", proxy |-> Null, order |-> << >>, before |-> EmptyMap]
NoReg ==
    [call |-> NoCall, uses |-> EmptyMap, streak |-> EmptyMap,
     second |-> EmptyMap]

Init ==
    /\ now = StartMs
    /\ PROXY_POOL \in Pools
    /\ proxyHealth = EmptyMap
    /\ ipLocks = {}
    /\ recentRequests = EmptyMap
    /\ videoCache = EmptyMap
    /\ reqs = [r \in Slots |-> IdleReq]
    /\ resp = NoResp
    /\ seen = EmptyMap
    /\ gate = NoGate
    /\ streams = [s \in StreamSlots |-> IdleStream]
    /\ reg = NoReg

\* ------------------------------------------------- proxy health registry

Range(s) == {s[i] : i \in DOMAIN s}

\* the orders [...PROXY_POOL].sort(() => 0.5 - Math.random()) can give
Shuffles(pool) ==
    {p \in [1..Len(pool) -> Range(pool)] : Range(p) = Range(pool)}

\* ScanProxies taking a ban as over already at now = bannedUntil
RECURSIVE ScanProxiesInclusive(_, _, _, _, _, _)
ScanProxiesInclusive(order, i, health, t, best, min) ==
    IF i > Len(order)
    THEN [proxy |-> best, health |-> health]
    ELSE LET proxy == order[i] IN
         IF ~MapHas(health, proxy)
         THEN [proxy |-> proxy, health |-> health]
         ELSE IF t >= health[proxy].bannedUntil
         THEN [proxy |-> proxy, health |-> MapDelete(health, proxy)]
         ELSE IF min = -1 \/ health[proxy].bannedUntil < min
         THEN ScanProxiesInclusive(order, i + 1, health, t, proxy,
                                   health[proxy].bannedUntil)
         ELSE ScanProxiesInclusive(order, i + 1, health, t, best, min)

\* ScanProxies keeping the proxy that stays banned longest
RECURSIVE ScanProxiesLatest(_, _, _, _, _, _)
ScanProxiesLatest(order, i, health, t, best, min) ==
    IF i > Len(order)
    THEN [proxy |-> best, health |-> health]
    ELSE LET proxy == order[i] IN
         IF ~MapHas(health, proxy)
         THEN [proxy |-> proxy, health |-> health]
         ELSE IF t > health[proxy].bannedUntil
         THEN [proxy |-> proxy, health |-> MapDelete(health, proxy)]
         ELSE IF min = -1 \/ health[proxy].bannedUntil > min
         THEN ScanProxiesLatest(order, i + 1, health, t, proxy,
                                health[proxy].bannedUntil)
         ELSE ScanProxiesLatest(order, i + 1, health, t, best, min)

\* the loop of getHealthyProxy (server.js 41-56) from position i on;
\* best is bestBadProxy, min is minBanTime (-1 stands for Infinity)
RECURSIVE ScanProxies(_, _, _, _, _, _)
ScanProxies(order, i, health, t, best, min) ==
    IF i > Len(order)
    THEN [proxy |-> best, health |-> health]
    ELSE LET proxy == order[i] IN
         IF ~MapHas(health, proxy)
         THEN [proxy |-> proxy, health |-> health]
         ELSE IF t > health[proxy].bannedUntil
         THEN [proxy |-> proxy, health |-> MapDelete(health, proxy)]
         ELSE IF min = -1 \/ health[proxy].bannedUntil < min
         THEN ScanProxies(order, i + 1, health, t, proxy,
                          health[proxy].bannedUntil)
         ELSE ScanProxies(order, i + 1, health, t, best, min)

\* getHealthyProxy giving up (null) when every proxy is banned
getHealthyProxyOrNull(pool, order, health, t) ==
    IF Len(pool) = 0
    THEN [proxy |-> Null, health |-> health]
    ELSE LET scan == ScanProxies(order, 1, health, t, Null, -1) IN
         IF /\ scan.proxy # Null
            /\ \/ ~MapHas(health, scan.proxy)
               \/ t > health[scan.proxy].bannedUntil
         THEN scan
         ELSE [proxy |-> Null, health |-> health]

\* getHealthyProxy (server.js 32-66) at time t with the shuffle `order`:
\* the proxy returned and the health map left behind
getHealthyProxy(pool, order, health, t) ==
    IF Len(pool) = 0
    THEN [proxy |-> Null, health |-> health]
    ELSE LET scan == ScanProxies(order, 1, health, t, Null, -1) IN
         IF scan.proxy # Null THEN scan
         ELSE [proxy |-> pool[1], health |-> health]

\* markProxyBad (server.js 68-80) at time t: the health map left behind
markProxyBad(health, proxy, t) ==
    IF proxy = Null THEN health
    ELSE LET old == IF MapHas(health, proxy) THEN health[proxy]
                    ELSE [fails |-> 0, bannedUntil |-> 0]
             fails == old.fails + 1
         IN MapSet(health, proxy,
                   [fails |-> fails,
                    bannedUntil |-> IF fails >= BAN_FAILS THEN t + BAN_MS
                                    ELSE old.bannedUntil])

\* -------------------------------------------------------------- the gate

\* Gate without the test of the lock
GateNoLock(ip, url) ==
    IF /\ MapHas(recentRequests, ip)
       /\ recentRequests[ip].url = url
       /\ now - recentRequests[ip].time < COOLDOWN_MS
    THEN "RATE_LIMIT_DUPLICATE"
    ELSE "ADMIT"

\* Gate with one lock for all callers
GateGlobalLock(ip, url) ==
    IF ipLocks # {} THEN "QUEUE_FULL"
    ELSE IF /\ MapHas(recentRequests, ip)
            /\ recentRequests[ip].url = url
            /\ now - recentRequests[ip].time < COOLDOWN_MS
    THEN "RATE_LIMIT_DUPLICATE"
    ELSE "ADMIT"

\* Gate with the cooldown still running at exactly 15 s
GateInclusive(ip, url) ==
    IF ip \in ipLocks THEN "QUEUE_FULL"
    ELSE IF /\ MapHas(recentRequests, ip)
            /\ recentRequests[ip].url = url
            /\ now - recentRequests[ip].time <= COOLDOWN_MS
    THEN "RATE_LIMIT_DUPLICATE"
    ELSE "ADMIT"

\* runSafeYtDlp up to the lock (server.js 154-171): what the gate decides
Gate(ip, url) ==
    IF ip \in ipLocks THEN "QUEUE_FULL"
    ELSE IF /\ MapHas(recentRequests, ip)
            /\ recentRequests[ip].url = url
            /\ now - recentRequests[ip].time < COOLDOWN_MS
    THEN "RATE_LIMIT_DUPLICATE"
    ELSE "ADMIT"

\* the handler invocation that takes the next request
FreeSlot == CHOOSE r \in Slots :
                /\ reqs[r].pc = "idle"
                /\ \A q \in Slots : reqs[q].pc = "idle" => r <= q

\* ----------------------------------------------------- the route handlers

\* res.status(..).json(..) for the request `req`, with what the request did
Respond(req, status, body, run) ==
    [status |-> status, ip |-> req.ip, url |-> req.url, ep |-> req.ep,
     body |-> body, run |-> run, spawns |-> req.spawns, log |-> req.log,
     outcomes |-> req.outcomes, ev |-> req.ev, gone |-> req.gone]

\* JSON.parse and the projection to the response (server.js 319-345)
Payload(output) ==
    CASE output = "{A}" -> "title A"
      [] output = "{B}" -> "title B"
      [] OTHER -> Undefined

\* VideoInfoSettled dropping the entry of the locator when the fetch failed
VideoInfoSettledEvicts(req, run) ==
    IF run.ok
    THEN IF run.value \in JsonDocs
         THEN /\ videoCache' = MapSet(videoCache, req.url,
                       [time |-> now, data |-> Payload(run.value)])
              /\ resp' = Respond(req, 200, Payload(run.value), run)
         ELSE /\ videoCache' = MapDelete(videoCache, req.url)
              /\ resp' = Respond(req, 500,
                       "Failed to fetch video info. Please try again.", run)
    ELSE /\ videoCache' = MapDelete(videoCache, req.url)
         /\ resp' =
              CASE run.error.message = "QUEUE_FULL" ->
                     Respond(req, 429, "Server busy. Please wait a moment.",
                             run)
                [] run.error.message = "RATE_LIMIT_DUPLICATE" ->
                     Respond(req, 429,
                        "Please wait before checking this video again.", run)
                [] run.error.message = "NO_HEALTHY_PROXIES" ->
                     Respond(req, 503,
                        "Service temporarily unavailable. Please try again later.",
                        run)
                [] run.error.message = "BOT_DETECTED" ->
                     Respond(req, 503,
                        "Video temporarily unavailable due to high traffic.",
                        run)
                [] OTHER ->
                     Respond(req, 500,
                        "Failed to fetch video info. Please try again.", run)

\* POST /api/video-info once runSafeYtDlp has settled (server.js 318-367)
VideoInfoSettled(req, run) ==
    IF run.ok
    THEN IF run.value \in JsonDocs
         THEN /\ videoCache' = MapSet(videoCache, req.url,
                       [time |-> now, data |-> Payload(run.value)])
              /\ resp' = Respond(req, 200, Payload(run.value), run)
         ELSE /\ videoCache' = videoCache
              /\ resp' = Respond(req, 500,
                       "Failed to fetch video info. Please try again.", run)
    ELSE /\ videoCache' = videoCache
         /\ resp' =
              CASE run.error.message = "QUEUE_FULL" ->
                     Respond(req, 429, "Server busy. Please wait a moment.",
                             run)
                [] run.error.message = "RATE_LIMIT_DUPLICATE" ->
                     Respond(req, 429,
                        "Please wait before checking this video again.", run)
                [] run.error.message = "NO_HEALTHY_PROXIES" ->
                     Respond(req, 503,
                        "Service temporarily unavailable. Please try again later.",
                        run)
                [] run.error.message = "BOT_DETECTED" ->
                     Respond(req, 503,
                        "Video temporarily unavailable due to high traffic.",
                        run)
                [] OTHER ->
                     Respond(req, 500,
                        "Failed to fetch video info. Please try again.", run)

\* GET /api/get-link once runSafeYtDlp has settled (server.js 390-399)
GetLinkSettled(req, run) ==
    /\ videoCache' = videoCache
    /\ resp' =
         IF run.ok
         THEN Respond(req, 200, FirstLine(run.value), run)
         ELSE IF run.error.message = "QUEUE_FULL"
         THEN Respond(req, 429, "Server busy. Please wait a moment.", run)
         ELSE Respond(req, 500,
                 "Failed to generate link. Please try again.", run)

Settled(req, run) ==
    IF req.ep = "video-info" THEN VideoInfoSettled(req, run)
    ELSE GetLinkSettled(req, run)

\* the history of calls of runSafeYtDlp (the locator of the latest call, the
\* time of the latest call per locator, and the route `via` whose call wrote
\* the client's record in recentRequests), and what the gate saw at this one
Observe(ip, url, ep, decision) ==
    LET known == MapHas(seen, ip)
        times == IF known THEN seen[ip].times ELSE EmptyMap
        via == IF decision = "ADMIT" THEN ep
               ELSE IF known THEN seen[ip].via ELSE ""
    IN /\ seen' = MapSet(seen, ip,
                     [last |-> url, times |-> MapSet(times, url, now),
                      via |-> via])
       /\ gate' = [ip |-> ip, url |-> url, decision |-> decision,
                   busy |-> ip \in ipLocks,
                   lastUrl |-> IF known THEN seen[ip].last ELSE "",
                   sinceLast |-> IF known
                                 THEN now - times[seen[ip].last] ELSE -1,
                   sinceSame |-> IF MapHas(times, url)
                                 THEN now - times[url] ELSE -1]

\* Enter with the throws of the gate inside the try block, so that the
\* finally block deletes the lock on a rejection too
EnterRejectReleases(req) ==
    LET decision == Gate(req.ip, req.url) IN
    /\ Observe(req.ip, req.url, req.ep, decision)
    /\ IF decision = "ADMIT"
       THEN /\ recentRequests' =
                 MapSet(recentRequests, req.ip, [url |-> req.url, time |-> now])
            /\ ipLocks' = ipLocks \cup {req.ip}
            /\ reqs' = [reqs EXCEPT ![FreeSlot] = [req EXCEPT !.pc = "delay"]]
            /\ resp' = NoResp
            /\ UNCHANGED videoCache
       ELSE /\ Settled(req, Threw([message |-> decision, stderr |-> Undefined]))
            /\ ipLocks' = ipLocks \ {req.ip}
            /\ UNCHANGED <<recentRequests, reqs>>

\* Enter with a cooldown per route: the record of a request of the other
\* route does not count
EnterPerRoute(req) ==
    LET decision == IF /\ Gate(req.ip, req.url) = "RATE_LIMIT_DUPLICATE"
                       /\ seen[req.ip].via # req.ep
                    THEN "ADMIT" ELSE Gate(req.ip, req.url) IN
    /\ Observe(req.ip, req.url, req.ep, decision)
    /\ IF decision = "ADMIT"
       THEN /\ recentRequests' =
                 MapSet(recentRequests, req.ip, [url |-> req.url, time |-> now])
            /\ ipLocks' = ipLocks \cup {req.ip}
            /\ reqs' = [reqs EXCEPT ![FreeSlot] = [req EXCEPT !.pc = "delay"]]
            /\ resp' = NoResp
            /\ UNCHANGED videoCache
       ELSE /\ Settled(req, Threw([message |-> decision, stderr |-> Undefined]))
            /\ UNCHANGED <<recentRequests, ipLocks, reqs>>

\* Enter with the gate's tests made only after the first spawn
EnterSpawnsFirst(req) ==
    LET decision == Gate(req.ip, req.url) IN
    /\ Observe(req.ip, req.url, req.ep, decision)
    /\ IF decision = "ADMIT"
       THEN /\ recentRequests' =
                 MapSet(recentRequests, req.ip, [url |-> req.url, time |-> now])
            /\ ipLocks' = ipLocks \cup {req.ip}
            /\ reqs' = [reqs EXCEPT ![FreeSlot] = [req EXCEPT !.pc = "delay"]]
            /\ resp' = NoResp
            /\ UNCHANGED videoCache
       ELSE /\ Settled([req EXCEPT !.spawns = 1, !.log = <<Strategies[1]>>],
                       Threw([message |-> decision, stderr |-> Undefined]))
            /\ UNCHANGED <<recentRequests, ipLocks, reqs>>

\* runSafeYtDlp from its call to its first await (server.js 154-176), and
\* the handler's answer when the gate throws
Enter(req) ==
    LET decision == Gate(req.ip, req.url) IN
    /\ Observe(req.ip, req.url, req.ep, decision)
    /\ IF decision = "ADMIT"
       THEN /\ recentRequests' =
                 MapSet(recentRequests, req.ip, [url |-> req.url, time |-> now])
            /\ ipLocks' = ipLocks \cup {req.ip}
            /\ reqs' = [reqs EXCEPT ![FreeSlot] = [req EXCEPT !.pc = "delay"]]
            /\ resp' = NoResp
            /\ UNCHANGED videoCache
       ELSE /\ Settled(req, Threw([message |-> decision, stderr |-> Undefined]))
            /\ UNCHANGED <<recentRequests, ipLocks, reqs>>

NewReq(ip, url, ep) == [IdleReq EXCEPT !.ip = ip, !.url = url, !.ep = ep]

\* VideoInfo serving an entry of any age
VideoInfoNoExpiry(ip, url) ==
    /\ \E r \in Slots : reqs[r].pc = "idle"
    /\ LET req == NewReq(ip, url, "video-info") IN
       IF url = ""
       THEN /\ resp' = Respond(req, 400, "URL is required", NoRun)
            /\ gate' = NoGate
            /\ UNCHANGED <<recentRequests, ipLocks, reqs, videoCache, seen>>
       ELSE IF MapHas(videoCache, url)
       THEN /\ resp' = Respond(req, 200, videoCache[url].data, NoRun)
            /\ gate' = NoGate
            /\ UNCHANGED <<recentRequests, ipLocks, reqs, videoCache, seen>>
       ELSE Enter(req)
    /\ UNCHANGED <<now, PROXY_POOL, proxyHealth, streams, reg>>

\* VideoInfo looking at the lock before it looks at the cache
VideoInfoBusyFirst(ip, url) ==
    /\ \E r \in Slots : reqs[r].pc = "idle"
    /\ LET req == NewReq(ip, url, "video-info") IN
       IF url = ""
       THEN /\ resp' = Respond(req, 400, "URL is required", NoRun)
            /\ gate' = NoGate
            /\ UNCHANGED <<recentRequests, ipLocks, reqs, videoCache, seen>>
       ELSE IF /\ ip \notin ipLocks
               /\ MapHas(videoCache, url)
               /\ now - videoCache[url].time < CACHE_TTL_MS
       THEN /\ resp' = Respond(req, 200, videoCache[url].data, NoRun)
            /\ gate' = NoGate
            /\ UNCHANGED <<recentRequests, ipLocks, reqs, videoCache, seen>>
       ELSE Enter(req)
    /\ UNCHANGED <<now, PROXY_POOL, proxyHealth, streams, reg>>

\* VideoInfo serving an entry that is exactly 60 s old
VideoInfoInclusive(ip, url) ==
    /\ \E r \in Slots : reqs[r].pc = "idle"
    /\ LET req == NewReq(ip, url, "video-info") IN
       IF url = ""
       THEN /\ resp' = Respond(req, 400, "URL is required", NoRun)
            /\ gate' = NoGate
            /\ UNCHANGED <<recentRequests, ipLocks, reqs, videoCache, seen>>
       ELSE IF /\ MapHas(videoCache, url)
               /\ now - videoCache[url].time <= CACHE_TTL_MS
       THEN /\ resp' = Respond(req, 200, videoCache[url].data, NoRun)
            /\ gate' = NoGate
            /\ UNCHANGED <<recentRequests, ipLocks, reqs, videoCache, seen>>
       ELSE Enter(req)
    /\ UNCHANGED <<now, PROXY_POOL, proxyHealth, streams, reg>>

\* POST /api/video-info (server.js 307-318) up to its first await
VideoInfo(ip, url) ==
    /\ \E r \in Slots : reqs[r].pc = "idle"
    /\ LET req == NewReq(ip, url, "video-info") IN
       IF url = ""
       THEN /\ resp' = Respond(req, 400, "URL is required", NoRun)
            /\ gate' = NoGate
            /\ UNCHANGED <<recentRequests, ipLocks, reqs, videoCache, seen>>
       ELSE IF /\ MapHas(videoCache, url)
               /\ now - videoCache[url].time < CACHE_TTL_MS
       THEN /\ resp' = Respond(req, 200, videoCache[url].data, NoRun)
            /\ gate' = NoGate
            /\ UNCHANGED <<recentRequests, ipLocks, reqs, videoCache, seen>>
       ELSE Enter(req)
    /\ UNCHANGED <<now, PROXY_POOL, proxyHealth, streams, reg>>

\* GetLink answering from the metadata cache when it holds a fresh entry
GetLinkCached(ip, url, itag) ==
    /\ \E r \in Slots : reqs[r].pc = "idle"
    /\ LET req == NewReq(ip, url, "get-link") IN
       IF url = "" \/ itag = ""
       THEN /\ resp' = Respond(req, 400, "Missing parameters", NoRun)
            /\ gate' = NoGate
            /\ UNCHANGED <<recentRequests, ipLocks, reqs, videoCache, seen>>
       ELSE IF MapHas(videoCache, url)
               /\ now - videoCache[url].time < CACHE_TTL_MS
       THEN /\ resp' = Respond(req, 200, videoCache[url].data, NoRun)
            /\ gate' = NoGate
            /\ UNCHANGED <<recentRequests, ipLocks, reqs, videoCache, seen>>
       ELSE Enter(req)
    /\ UNCHANGED <<now, PROXY_POOL, proxyHealth, streams, reg>>

\* GET /api/get-link (server.js 385-390) up to its first await
GetLink(ip, url, itag) ==
    /\ \E r \in Slots : reqs[r].pc = "idle"
    /\ LET req == NewReq(ip, url, "get-link") IN
       IF url = "" \/ itag = ""
       THEN /\ resp' = Respond(req, 400, "Missing parameters", NoRun)
            /\ gate' = NoGate
            /\ UNCHANGED <<recentRequests, ipLocks, reqs, videoCache, seen>>
       ELSE Enter(req)
    /\ UNCHANGED <<now, PROXY_POOL, proxyHealth, streams, reg>>

\* ------------------------------------------------- the strategy chain

\* StartAttempt walking the strategies from the last to the first
StartAttemptReversed(r, i, order) ==
    LET sel == getHealthyProxy(PROXY_POOL, order, proxyHealth, now) IN
    /\ proxyHealth' = sel.health
    /\ reqs' = [reqs EXCEPT ![r] =
                   [@ EXCEPT !.pc = "spawned", !.idx = i, !.proxy = sel.proxy,
                             !.spawns = @ + 1,
                             !.log = Append(@,
                                       Strategies[Len(Strategies) + 1 - i])]]

\* one turn of the loop up to executeYtDlp's spawn (server.js 206-242)
StartAttempt(r, i, order) ==
    LET sel == getHealthyProxy(PROXY_POOL, order, proxyHealth, now) IN
    /\ proxyHealth' = sel.health
    /\ reqs' = [reqs EXCEPT ![r] =
                   [@ EXCEPT !.pc = "spawned", !.idx = i, !.proxy = sel.proxy,
                             !.spawns = @ + 1,
                             !.log = Append(@, Strategies[i])]]

\* Settle with the lock released after the try block instead of in finally
SettleNoFinally(r, req, run) ==
    /\ ipLocks' = IF run.ok THEN ipLocks \ {req.ip} ELSE ipLocks
    /\ reqs' = [reqs EXCEPT ![r] = IdleReq]
    /\ Settled(req, run)
    /\ UNCHANGED proxyHealth

\* Settle forgetting the record of the proxy after a result
SettleForgivesProxy(r, req, run) ==
    /\ ipLocks' = ipLocks \ {req.ip}
    /\ reqs' = [reqs EXCEPT ![r] = IdleReq]
    /\ Settled(req, run)
    /\ proxyHealth' = IF run.ok /\ req.proxy # Null
                      THEN MapDelete(proxyHealth, req.proxy)
                      ELSE proxyHealth

\* runSafeYtDlp settles: the finally block (server.js 257-260), then the
\* rest of the route handler
Settle(r, req, run) ==
    /\ ipLocks' = ipLocks \ {req.ip}
    /\ reqs' = [reqs EXCEPT ![r] = IdleReq]
    /\ Settled(req, run)
    /\ UNCHANGED proxyHealth

\* what runSafeYtDlp throws once the loop has run out (server.js 255)
Exhausted(req) == Threw(req.lastError)

\* the catch block's lastError = error (server.js 244)
CatchFirstError(old, error) == IF old = NullError THEN error ELSE old
CatchError(old, error) == error

\* the timer of the random delay fires (server.js 175-176)
DelayDone(r) ==
    /\ reqs[r].pc = "delay"
    /\ \E order \in Shuffles(PROXY_POOL) : StartAttempt(r, 1, order)
    /\ resp' = NoResp
    /\ gate' = NoGate
    /\ UNCHANGED <<now, PROXY_POOL, ipLocks, recentRequests, videoCache, seen,
                   streams, reg>>

\* the spawned process ends with `ev` (server.js 130-147, 242-252)
ProcExit(r, ev) ==
    /\ reqs[r].pc = "spawned"
    /\ LET run == executeYtDlp(ev)
           req == [reqs[r] EXCEPT !.outcomes = Append(@, Outcome(ev)),
                                  !.ev = ev]
       IN
       IF run.ok THEN Settle(r, req, run)
       ELSE IF ShouldRetry(run.error)
       THEN /\ reqs' = [reqs EXCEPT ![r] =
                          [req EXCEPT !.pc = "backoff",
                                      !.lastError = CatchError(@, run.error)]]
            /\ resp' = NoResp
            /\ UNCHANGED <<proxyHealth, ipLocks, videoCache>>
       ELSE Settle(r, req, run)
    /\ gate' = NoGate
    /\ UNCHANGED <<now, PROXY_POOL, recentRequests, seen, streams, reg>>

\* the timer of the wait before the next strategy fires (server.js 248-255)
BackoffDone(r) ==
    /\ reqs[r].pc = "backoff"
    /\ IF reqs[r].idx < Len(Strategies)
       THEN /\ \E order \in Shuffles(PROXY_POOL) :
                   StartAttempt(r, reqs[r].idx + 1, order)
            /\ resp' = NoResp
            /\ UNCHANGED <<ipLocks, videoCache>>
       ELSE Settle(r, reqs[r], Exhausted(reqs[r]))
    /\ gate' = NoGate
    /\ UNCHANGED <<now, PROXY_POOL, recentRequests, seen, streams, reg>>

\* time passes
Tick ==
    /\ now + TickMs <= MaxTime
    /\ now' = now + TickMs
    /\ resp' = NoResp
    /\ gate' = NoGate
    /\ UNCHANGED <<PROXY_POOL, proxyHealth, ipLocks, recentRequests,
                   videoCache, reqs, seen, streams, reg>>

\* the steps of the server when the callers `ips` ask for the locators `urls`
NextOver(ips, urls) ==
    \/ Tick
    \/ \E ip \in ips, url \in urls \cup {""} : VideoInfo(ip, url)
    \/ \E ip \in ips, url \in urls \cup {""}, itag \in {"", "18"} :
          GetLink(ip, url, itag)
    \/ \E r \in Slots : DelayDone(r)
    \/ \E r \in Slots, ev \in ProcEvents : ProcExit(r, ev)
    \/ \E r \in Slots : BackoffDone(r)

Next == NextOver(Clients, Urls)

Spec == Init /\ [][Next]_vars

\* Node fires every due timer, and every spawned process ends with 'close'
\* or 'error'. The lock is keyed by ip alone, so one locator is enough here.
LiveSpec ==
    /\ Init /\ [][NextOver(Clients, {"u1"})]_vars
    /\ \A r \in Slots :
          /\ WF_vars(DelayDone(r))
          /\ WF_vars(\E ev \in ProcEvents : ProcExit(r, ev))
          /\ WF_vars(BackoffDone(r))

\* ------------------------------------------- GET /api/stream-download

\* A title is the sequence of its characters; the empty sequence stands for
\* a title that is absent or empty, which `title || 'video'` treats alike.
LowerAZ == {"a", "b", "c", "d", "e", "f", "g", "h", "i", "j", "k", "l", "m",
            "n", "o", "p", "q", "r", "s", "t", "u", "v", "w", "x", "y", "z"}
UpperAZ == {"A", "B", "C", "D", "E", "F", "G", "H", "I", "J", "K", "L", "M",
            "N", "O", "P", "Q", "R", "S", "T", "U", "V", "W", "X", "Y", "Z"}
Digits09 == {"0", "1", "2", "3", "4", "5", "6", "7", "8", "9"}

\* the characters the class [^a-zA-Z0-9-_] does not match: the three ranges,
\* and '-' and '_' themselves ('-' after the range 0-9 is a literal)
KeptByRegex(c) == c \in LowerAZ \cup UpperAZ \cup Digits09 \cup {"-", "_"}

\* SafeTitle dropping the characters it should replace
SafeTitleStripping(title) ==
    IF title = << >> THEN <<"v", "i", "d", "e", "o">>
    ELSE SelectSeq(title, KeptByRegex)

\* (title || 'video').replace(/[^a-zA-Z0-9-_]/g, '_') (server.js 407)
SafeTitle(title) ==
    IF title = << >> THEN <<"v", "i", "d", "e", "o">>
    ELSE [i \in DOMAIN title |->
             IF KeptByRegex(title[i]) THEN title[i] ELSE "_"]

FreeStream == CHOOSE s \in StreamSlots :
                  /\ streams[s].pc = "idle"
                  /\ \A q \in StreamSlots : streams[q].pc = "idle" => s <= q

\* `${itag}+bestaudio/best` on the samples
FormatSelector(itag) ==
    CASE itag = "18" -> "18+bestaudio/best"
      [] OTHER -> "+bestaudio/best"

CookiesPath == "server/cookies.txt"

\* the argument list of the streaming spawn (server.js 411-446): the fixed
\* list ends with the url, and the proxy, the cookies and the user agent
\* are pushed after it
StreamArgs(url, itag, proxy, cookies) ==
    <<"--force-ipv4", "--no-playlist", "--no-check-certificates",
      "--prefer-free-formats", "--geo-bypass", "--socket-timeout", "30",
      "--retries", "3", "-f", FormatSelector(itag),
      "--merge-output-format", "mp4", "-o", "-",
      "--extractor-args", "youtube:player_client=android",
      "--extractor-args", "youtube:player_skip=webpage,configs", url>>
    \o (IF proxy # Null THEN <<"--proxy", proxy>> ELSE << >>)
    \o (IF cookies THEN <<"--cookies", CookiesPath>> ELSE << >>)
    \o <<"--user-agent", 
        "Mozilla/5.0 (Linux; Android 10; K) AppleWebKit/537.36 (KHTML, like Gecko) Chrome/120.0.0.0 Mobile Safari/537.36">>

\* the profile flags of strategy i (server.js 178-202)
StrategyArgs(i) ==
    CASE i = 1 -> <<"--extractor-args", "youtube:player_client=android",
                    "--extractor-args", "youtube:player_skip=webpage,configs",
                    "--user-agent", 
        "Mozilla/5.0 (Linux; Android 14; Pixel 8 Pro) AppleWebKit/537.36 (KHTML, like Gecko) Chrome/121.0.6167.101 Mobile Safari/537.36">>
      [] i = 2 -> <<"--extractor-args", "youtube:player_client=ios",
                    "--extractor-args", "youtube:player_skip=webpage,configs",
                    "--user-agent", 
        "Mozilla/5.0 (iPhone; CPU iPhone OS 17_3 like Mac OS X) AppleWebKit/605.1.15 (KHTML, like Gecko) Version/17.3 Mobile/15E148 Safari/604.1">>
      [] OTHER -> <<"--extractor-args", "youtube:player_client=web",
                    "--user-agent", 
        "Mozilla/5.0 (Windows NT 10.0; Win64; x64) AppleWebKit/537.36 (KHTML, like Gecko) Chrome/121.0.0.0 Safari/537.36">>

\* the commandFlags of the two routes (server.js 318, 390)
CommandFlags(ep, itag) ==
    IF ep = "video-info" THEN <<"-J", "--skip-download">>
    ELSE <<"-f", itag, "-g">>

\* finalArgs of the attempt with strategy i (server.js 209-239)
AttemptArgs(i, proxy, cookies, commandFlags, url) ==
    <<"--force-ipv4", "--no-playlist", "--no-check-certificates",
      "--prefer-free-formats", "--geo-bypass", "--socket-timeout", "15",
      "--retries", "2", "--fragment-retries", "2",
      "--skip-unavailable-fragments", "--concurrent-fragments", "1",
      "--js-runtimes", "node", "--remote-components", "ejs:github">>
    \o StrategyArgs(i)
    \o (IF proxy # Null THEN <<"--proxy", proxy>> ELSE << >>)
    \o (IF cookies THEN <<"--cookies", CookiesPath>> ELSE << >>)
    \o commandFlags
    \o <<url>>

\* what the step just taken did to a stream, as a response event
StreamEvent(ip, url, what) ==
    [NoResp EXCEPT !.ip = ip, !.url = url, !.ep = "stream-download",
                   !.body = what]

\* StreamDownload turning away a caller that holds its lock
StreamDownloadGated(ip, url, itag, title) ==
    /\ \E s \in StreamSlots : streams[s].pc = "idle"
    /\ IF url = "" \/ itag = ""
       THEN /\ resp' = [NoResp EXCEPT !.status = 400, !.ip = ip, !.url = url,
                                      !.ep = "stream-download",
                                      !.body = "Missing parameters"]
            /\ UNCHANGED <<streams, proxyHealth>>
       ELSE IF ip \in ipLocks
       THEN /\ resp' = [NoResp EXCEPT !.status = 429, !.ip = ip, !.url = url,
                                      !.ep = "stream-download",
                                      !.body = "Server busy. Please wait a moment."]
            /\ UNCHANGED <<streams, proxyHealth>>
       ELSE \E order \in Shuffles(PROXY_POOL), cookies \in BOOLEAN :
               LET sel == getHealthyProxy(PROXY_POOL, order, proxyHealth, now)
               IN /\ proxyHealth' = sel.health
                  /\ streams' = [streams EXCEPT ![FreeStream] =
                                    [pc |-> "piping", ip |-> ip, url |-> url,
                                     itag |-> itag, proxy |-> sel.proxy,
                                     title |-> title,
                                     filename |-> SafeTitle(title),
                                     client |-> "connected",
                                     args |-> StreamArgs(url, itag, sel.proxy,
                                                         cookies)]]
                  /\ resp' = [StreamEvent(ip, url, "spawned")
                                 EXCEPT !.spawns = 1]
    /\ gate' = NoGate
    /\ UNCHANGED <<now, PROXY_POOL, ipLocks, recentRequests, videoCache, reqs,
                   seen, reg>>

\* GET /api/stream-download (server.js 403-463): the whole handler, which
\* does not await; it leaves a process piped to the response
StreamDownload(ip, url, itag, title) ==
    /\ \E s \in StreamSlots : streams[s].pc = "idle"
    /\ IF url = "" \/ itag = ""
       THEN /\ resp' = [NoResp EXCEPT !.status = 400, !.ip = ip, !.url = url,
                                      !.ep = "stream-download",
                                      !.body = "Missing parameters"]
            /\ UNCHANGED <<streams, proxyHealth>>
       ELSE \E order \in Shuffles(PROXY_POOL), cookies \in BOOLEAN :
               LET sel == getHealthyProxy(PROXY_POOL, order, proxyHealth, now)
               IN /\ proxyHealth' = sel.health
                  /\ streams' = [streams EXCEPT ![FreeStream] =
                                    [pc |-> "piping", ip |-> ip, url |-> url,
                                     itag |-> itag, proxy |-> sel.proxy,
                                     title |-> title,
                                     filename |-> SafeTitle(title),
                                     client |-> "connected",
                                     args |-> StreamArgs(url, itag, sel.proxy,
                                                         cookies)]]
                  /\ resp' = [StreamEvent(ip, url, "spawned")
                                 EXCEPT !.spawns = 1]
    /\ gate' = NoGate
    /\ UNCHANGED <<now, PROXY_POOL, ipLocks, recentRequests, videoCache, reqs,
                   seen, reg>>

\* StreamReqClose forgetting the process
StreamReqCloseNoKill(s) ==
    /\ streams[s].pc = "piping" /\ streams[s].client = "connected"
    /\ streams' = [streams EXCEPT ![s].client = "gone"]
    /\ resp' = StreamEvent(streams[s].ip, streams[s].url, "client closed")
    /\ gate' = NoGate
    /\ UNCHANGED <<now, PROXY_POOL, proxyHealth, ipLocks, recentRequests,
                   videoCache, reqs, seen, reg>>

\* req.on('close'): the caller went away and the process is killed
\* (server.js 460-462)
StreamReqClose(s) ==
    /\ streams[s].pc = "piping" /\ streams[s].client = "connected"
    /\ streams' = [streams EXCEPT ![s].client = "gone", ![s].pc = "killed"]
    /\ resp' = StreamEvent(streams[s].ip, streams[s].url, "client closed")
    /\ gate' = NoGate
    /\ UNCHANGED <<now, PROXY_POOL, proxyHealth, ipLocks, recentRequests,
                   videoCache, reqs, seen, reg>>

\* ytProcess 'close': the process has ended, by itself (code 0 or not) or
\* killed; the handler only logs, and the end of its stdout ends the
\* response (server.js 448, 456-458)
StreamProcClose(s, code) ==
    /\ streams[s].pc \in {"piping", "killed"}
    /\ streams' = [streams EXCEPT ![s] = IdleStream]
    /\ resp' = [StreamEvent(streams[s].ip, streams[s].url, "stream ended")
                   EXCEPT !.ev = [NoEvent EXCEPT !.type = "close",
                                                 !.code = code]]
    /\ gate' = NoGate
    /\ UNCHANGED <<now, PROXY_POOL, proxyHealth, ipLocks, recentRequests,
                   videoCache, reqs, seen, reg>>

\* ytProcess 'error': yt-dlp could not be started. The handler has put no
\* listener for 'error' on ytProcess (server.js 446-462), so the event is
\* thrown, nothing catches it, and Node exits: every invocation and every
\* stream of the server is gone, and no step of the server follows.
StreamProcError(s) ==
    /\ streams[s].pc = "piping"
    /\ streams' = [q \in StreamSlots |-> [IdleStream EXCEPT !.pc = "down"]]
    /\ reqs' = [r \in Slots |-> [IdleReq EXCEPT !.pc = "down"]]
    /\ resp' = [StreamEvent(streams[s].ip, streams[s].url, "uncaught error")
                   EXCEPT !.ev = [NoEvent EXCEPT !.type = "error"]]
    /\ gate' = NoGate
    /\ UNCHANGED <<now, PROXY_POOL, proxyHealth, ipLocks, recentRequests,
                   videoCache, seen, reg>>

\* ReqClose giving up the request and its lock
ReqCloseCancels(r) ==
    /\ reqs[r].pc \notin {"idle", "down"} /\ ~reqs[r].gone
    /\ reqs' = [reqs EXCEPT ![r] = IdleReq]
    /\ ipLocks' = ipLocks \ {reqs[r].ip}
    /\ resp' = NoResp
    /\ gate' = NoGate
    /\ UNCHANGED <<now, PROXY_POOL, proxyHealth, recentRequests, videoCache,
                   seen, streams, reg>>

\* the caller of /api/video-info or /api/get-link goes away while its
\* request is in flight: these handlers put no listener on req (server.js
\* 307-400), so nothing of the server changes
ReqClose(r) ==
    /\ reqs[r].pc \notin {"idle", "down"} /\ ~reqs[r].gone
    /\ reqs' = [reqs EXCEPT ![r].gone = TRUE]
    /\ resp' = NoResp
    /\ gate' = NoGate
    /\ UNCHANGED <<now, PROXY_POOL, proxyHealth, ipLocks, recentRequests,
                   videoCache, seen, streams, reg>>

\* the server with its three routes, for one caller and one locator
StreamNext ==
    \/ Tick
    \/ NextOver(Clients, {"u1"})
    \/ \E ip \in Clients, itag \in {"", "18"}, title \in {<< >>, <<"a", "/">>} :
          StreamDownload(ip, "u1", itag, title)
    \/ \E s \in StreamSlots : StreamReqClose(s)
    \/ \E s \in StreamSlots, code \in {0, 1} : StreamProcClose(s, code)
    \/ \E s \in StreamSlots : StreamProcError(s)

StreamSpec == Init /\ [][StreamNext]_vars

\* Every stream process ends: with its download, or with the signal.
StreamLiveSpec ==
    /\ StreamSpec
    /\ \A s \in StreamSlots :
          WF_vars(\E code \in {0, 1} : StreamProcClose(s, code))

\* the two gated routes with callers that may go away
HangupNext ==
    \/ NextOver(Clients, {"u1"})
    \/ \E r \in Slots : ReqClose(r)

HangupSpec == Init /\ [][HangupNext]_vars

\* two callers of the gated routes asking for one locator; their processes
\* end with a link, a document or a fatal error
PairClients == {"c1", "c2"}
PairEvents ==
    { [type |-> "close", code |-> 0, stdout |-> "https://v/1\nhttps://a/1\n",
       stderr |-> ""],
      [type |-> "close", code |-> 1, stdout |-> "",
       stderr |-> "ERROR: Video unavailable"] }

PairNext ==
    \/ Tick
    \/ \E ip \in PairClients : VideoInfo(ip, "u1")
    \/ \E ip \in PairClients : GetLink(ip, "u1", "18")
    \/ \E r \in Slots : DelayDone(r)
    \/ \E r \in Slots, ev \in PairEvents : ProcExit(r, ev)

PairSpec == Init /\ [][PairNext]_vars

\* stream requests with every title of up to MaxTitleLen characters of an
\* alphabet that has kept characters, a quote, a line feed and a slash
MaxTitleLen == 3
TitleAlphabet == {"a", "Z", "7", "-", "\"", "\n", "/"}
Titles == UNION {[1..n -> TitleAlphabet] : n \in 0..MaxTitleLen}

TitleNext ==
    \/ \E ip \in Clients, itag \in {"", "18"}, title \in Titles :
          StreamDownload(ip, "u1", itag, title)
    \/ \E s \in StreamSlots : StreamReqClose(s)
    \/ \E s \in StreamSlots, code \in {0, 1} : StreamProcClose(s, code)

TitleSpec == Init /\ [][TitleNext]_vars

\* ------------------------------------------ the registry under its callers

\* pools and time steps that let a ban (10 min) start, last and run out
RegPools == {<< >>, <<"p1", "p2">>}
RegTickMs == 300000
RegMaxTime == 900010
\* attempts that may hold one proxy at once, and failures counted per proxy
MaxUses == 2
MaxFails == 3

Count(m, k) == IF MapHas(m, k) THEN m[k] ELSE 0
SetCount(m, k, n) == IF n = 0 THEN MapDelete(m, k) ELSE MapSet(m, k, n)

\* ten minutes are much longer than the 15 s of the gate
LongTick ==
    /\ now + RegTickMs <= RegMaxTime
    /\ now' = now + RegTickMs
    /\ resp' = NoResp
    /\ gate' = NoGate
    /\ reg' = [reg EXCEPT !.call = NoCall]
    /\ UNCHANGED <<PROXY_POOL, proxyHealth, ipLocks, recentRequests,
                   videoCache, reqs, seen, streams>>

\* an attempt asks for its proxy: const proxy = getHealthyProxy()
\* (server.js 228, 439)
RegSelect(order) ==
    LET sel == getHealthyProxy(PROXY_POOL, order, proxyHealth, now) IN
    /\ sel.proxy # Null => Count(reg.uses, sel.proxy) < MaxUses
    /\ proxyHealth' = sel.health
    /\ reg' = [reg EXCEPT
                 !.call = [op |-> "select", proxy |-> sel.proxy,
                           order |-> order, before |-> proxyHealth],
                 !.uses = IF sel.proxy = Null THEN @
                          ELSE SetCount(@, sel.proxy, Count(@, sel.proxy) + 1)]
    /\ UNCHANGED <<now, PROXY_POOL, ipLocks, recentRequests, videoCache, reqs,
                   resp, seen, gate, streams>>

\* an attempt that held `proxy` failed and reports it: markProxyBad(proxy)
\* (server.js 68-80); an attempt made without a proxy reports null
RegReport(proxy) ==
    /\ IF proxy = Null THEN Len(PROXY_POOL) = 0
       ELSE /\ Count(reg.uses, proxy) > 0
            /\ MapHas(proxyHealth, proxy) => proxyHealth[proxy].fails < MaxFails
    /\ proxyHealth' = markProxyBad(proxyHealth, proxy, now)
    /\ reg' = IF proxy = Null
              THEN [reg EXCEPT !.call = [op |-> "report", proxy |-> proxy,
                                         order |-> << >>, before |-> proxyHealth]]
              ELSE LET was == Count(reg.streak, proxy) IN
                   [reg EXCEPT
                      !.call = [op |-> "report", proxy |-> proxy,
                                order |-> << >>, before |-> proxyHealth],
                      !.uses = SetCount(@, proxy, Count(@, proxy) - 1),
                      !.streak = IF was >= BAN_FAILS THEN @
                                 ELSE SetCount(@, proxy, was + 1),
                      !.second = IF was + 1 = BAN_FAILS
                                 THEN MapSet(@, proxy, now) ELSE @]
    /\ UNCHANGED <<now, PROXY_POOL, ipLocks, recentRequests, videoCache, reqs,
                   resp, seen, gate, streams>>

\* an attempt that held `proxy` got its result: runSafeYtDlp returns
\* (server.js 242) and calls nothing of the registry
RegSuccess(proxy) ==
    /\ Count(reg.uses, proxy) > 0
    /\ reg' = [reg EXCEPT
                 !.call = [op |-> "success", proxy |-> proxy, order |-> << >>,
                           before |-> proxyHealth],
                 !.uses = SetCount(@, proxy, Count(@, proxy) - 1),
                 !.streak = MapDelete(@, proxy),
                 !.second = MapDelete(@, proxy)]
    /\ UNCHANGED <<now, PROXY_POOL, proxyHealth, ipLocks, recentRequests,
                   videoCache, reqs, resp, seen, gate, streams>>

RegInit ==
    /\ now = StartMs
    /\ PROXY_POOL \in RegPools
    /\ proxyHealth = EmptyMap
    /\ ipLocks = {}
    /\ recentRequests = EmptyMap
    /\ videoCache = EmptyMap
    /\ reqs = [r \in Slots |-> IdleReq]
    /\ resp = NoResp
    /\ seen = EmptyMap
    /\ gate = NoGate
    /\ streams = [s \in StreamSlots |-> IdleStream]
    /\ reg = NoReg

RegNext ==
    \/ LongTick
    \/ \E order \in Shuffles(PROXY_POOL) : RegSelect(order)
    \/ \E proxy \in Range(PROXY_POOL) \cup {Null} : RegReport(proxy)
    \/ \E proxy \in Range(PROXY_POOL) : RegSuccess(proxy)

\* The registry driven by attempts that select a proxy, hold it and end in
\* a failure report or in a result, in any order and at any time.
RegistrySpec == RegInit /\ [][RegNext]_vars

\* ------------------------------------- the server with a reporting caller

\* markProxyBad has no caller in server.js. Here it is called for any proxy
\* at any moment, which gives runSafeYtDlp and /api/stream-download every
\* health map a caller of markProxyBad could leave behind.
ProxyReport(proxy) ==
    /\ MapHas(proxyHealth, proxy) => proxyHealth[proxy].fails < BAN_FAILS
    /\ proxyHealth' = markProxyBad(proxyHealth, proxy, now)
    /\ resp' = NoResp
    /\ gate' = NoGate
    /\ UNCHANGED <<now, PROXY_POOL, ipLocks, recentRequests, videoCache, reqs,
                   seen, streams, reg>>

\* the process events of this specification: a result, and a failure that
\* sends the request on to its next strategy
ProxyEvents ==
    { [type |-> "close", code |-> 0, stdout |-> "https://v/1\nhttps://a/1\n",
       stderr |-> ""],
      [type |-> "close", code |-> 1, stdout |-> "",
       stderr |-> "ERROR: HTTP Error 429: Too Many Requests"] }

ProxyNext ==
    \/ LongTick
    \/ \E ip \in Clients : GetLink(ip, "u1", "18")
    \/ \E r \in Slots : DelayDone(r)
    \/ \E r \in Slots, ev \in ProxyEvents : ProcExit(r, ev)
    \/ \E r \in Slots : BackoffDone(r)
    \/ \E ip \in Clients, itag \in {"", "18"}, title \in {<< >>, <<"a", "/">>} :
          StreamDownload(ip, "u1", itag, title)
    \/ \E s \in StreamSlots : StreamReqClose(s)
    \/ \E s \in StreamSlots, code \in {0, 1} : StreamProcClose(s, code)
    \/ \E proxy \in Range(PROXY_POOL) : ProxyReport(proxy)

ProxySpec == RegInit /\ [][ProxyNext]_vars

\* ------------------------------------------- the server over a minute

\* time steps that let a cache entry (60 s) reach and pass its last moment
CacheTickMs == 30000
CacheMaxTime == 60010

CacheTick ==
    /\ now + CacheTickMs <= CacheMaxTime
    /\ now' = now + CacheTickMs
    /\ resp' = NoResp
    /\ gate' = NoGate
    /\ UNCHANGED <<PROXY_POOL, proxyHealth, ipLocks, recentRequests,
                   videoCache, reqs, seen, streams, reg>>

\* yt-dlp -J giving another document for the same locator
OtherDoc == [type |-> "close", code |-> 0, stdout |-> "{B}\n", stderr |-> ""]

CacheNext ==
    \/ CacheTick
    \/ NextOver(Clients, {"u1"})
    \/ \E r \in Slots : ProcExit(r, OtherDoc)

CacheSpec == Init /\ [][CacheNext]_vars

\* ------------------------------------------------------------ the claims

\* the handler invocations of ip between lock acquire and release
InFlight(ip) == {r \in Slots : reqs[r].pc # "idle" /\ reqs[r].ip = ip}

Last(q) == q[Len(q)]
Retryable == {"BotDetected", "TransientFailure"}
Stops == {"FatalFailure", "SpawnFailed"}
GateErrors == {"QUEUE_FULL", "RATE_LIMIT_DUPLICATE"}

\* C1: a client never has two extractions in flight: a request that reaches
\* the gate while its client holds the lock is answered QUEUE_FULL (429) on
\* either route, and only a request that found the lock free is admitted.
C1_OneInFlightPerClient ==
    \A ip \in Clients :
        /\ Cardinality(InFlight(ip)) <= 1
        /\ gate.ip = ip /\ gate.busy =>
              /\ gate.decision = "QUEUE_FULL"
              /\ resp.ip = ip /\ resp.status = 429
              /\ resp.run.error.message = "QUEUE_FULL"
        /\ gate.ip = ip /\ gate.decision = "ADMIT" => ~gate.busy

\* a get-link request is turned away while a video-info request of the same
\* client is in flight
C1_Witness ==
    /\ gate.busy /\ gate.decision = "QUEUE_FULL" /\ resp.ep = "get-link"
    /\ \E r \in InFlight(gate.ip) : reqs[r].ep = "video-info"

\* C2: the lock is held exactly while a runSafeYtDlp of the client is under
\* way, whatever way it ends (value, exhausted strategies, fatal error, spawn
\* error), and with timers firing and processes ending every lock held is
\* released.
C2_LockReleasedOnEveryPath ==
    /\ [](\A ip \in Clients :
            /\ ip \in ipLocks <=> InFlight(ip) # {}
            /\ resp.ip = ip /\ resp.outcomes # << >> => ip \notin ipLocks)
    /\ \A ip \in Clients : (ip \in ipLocks) ~> (ip \notin ipLocks)

\* runSafeYtDlp has thrown the error of the last of three failed strategies
\* and the client is free again
C2_Witness ==
    /\ resp.outcomes = <<"BotDetected", "BotDetected", "BotDetected">>
    /\ ~resp.run.ok
    /\ resp.ip \notin ipLocks

\* C3: a request for U that finds its client free is answered
\* RATE_LIMIT_DUPLICATE whenever the client's most recent request was for U
\* less than 15 s ago, and never when the most recent request was for
\* another locator.
C3_CooldownFromMostRecentRequest ==
    gate.decision # "" /\ ~gate.busy =>
        /\ gate.lastUrl = gate.url /\ gate.sinceLast >= 0
              /\ gate.sinceLast < COOLDOWN_MS
           => gate.decision = "RATE_LIMIT_DUPLICATE"
        /\ gate.lastUrl \notin {"", gate.url}
           => gate.decision # "RATE_LIMIT_DUPLICATE"

\* C4: a request for U that finds its client free, 15 s or more after the
\* client's previous request for U, is admitted.
C4_AdmittedAfterCooldown ==
    gate.decision # "" /\ ~gate.busy /\ gate.sinceSame >= COOLDOWN_MS
        => gate.decision = "ADMIT"

\* a request for U is admitted 15 s after the previous request for U
C4_Witness ==
    /\ gate.decision = "ADMIT" /\ gate.sinceSame >= COOLDOWN_MS
    /\ gate.lastUrl = gate.url
    /\ \E r \in InFlight(gate.ip) : reqs[r].pc = "delay"

\* C5: recentRequests holds, for every client, the locator and the time of
\* its latest request that reached the gate, whatever the gate decided.
C5_RecordOnEveryRequest ==
    \A ip \in DOMAIN seen :
        /\ MapHas(recentRequests, ip)
        /\ recentRequests[ip] =
              [url |-> seen[ip].last, time |-> seen[ip].times[seen[ip].last]]

\* C6: a request answered QUEUE_FULL or RATE_LIMIT_DUPLICATE is answered in
\* the step in which the gate decided, before the delay, and has spawned no
\* process and tried no strategy.
C6_RejectedWithoutSpawn ==
    /\ resp.run.error.message \in GateErrors =>
          /\ resp.spawns = 0 /\ resp.log = << >> /\ resp.outcomes = << >>
          /\ gate.ip = resp.ip /\ gate.url = resp.url
          /\ gate.decision = resp.run.error.message
    /\ gate.decision \in GateErrors =>
          /\ resp.run.error.message = gate.decision
          /\ resp.status = 429 \/ resp.status = 500

\* a repeated request is turned away with no process spawned
C6_Witness ==
    /\ resp.run.error.message = "RATE_LIMIT_DUPLICATE"
    /\ resp.status = 429 /\ resp.spawns = 0

\* the strategies a request has tried are the first ones in the fixed
\* order, one process each, and every strategy but the latest ended in
\* BotDetected or TransientFailure
ChainInOrder(q) ==
    /\ q.spawns = Len(q.log) /\ q.spawns <= Len(Strategies)
    /\ q.log = SubSeq(Strategies, 1, Len(q.log))
    /\ Len(q.outcomes) <= Len(q.log)
    /\ \A i \in DOMAIN q.outcomes : i < Len(q.log) => q.outcomes[i] \in Retryable

\* C7: the strategies are tried one at a time in the order Android, iOS,
\* Web; a strategy is tried only after every earlier one ended in
\* BotDetected or TransientFailure; the first Success ends the chain and is
\* the result; at most 3 processes are spawned per request.
C7_StrategiesInOrder ==
    /\ \A r \in Slots :
          /\ ChainInOrder(reqs[r])
          /\ reqs[r].pc = "delay" => reqs[r].spawns = 0
          /\ reqs[r].pc = "spawned" =>
                /\ reqs[r].idx = reqs[r].spawns
                /\ Len(reqs[r].outcomes) = reqs[r].spawns - 1
          /\ reqs[r].pc = "backoff" =>
                /\ Len(reqs[r].outcomes) = reqs[r].spawns
                /\ Last(reqs[r].outcomes) \in Retryable
    /\ ChainInOrder(resp)
    /\ resp.outcomes # << >> =>
          /\ Len(resp.outcomes) = resp.spawns
          /\ Last(resp.outcomes) = "Success" =>
                /\ resp.run.ok
                /\ resp.run.value = Trim(resp.ev.stdout)
          /\ \A i \in DOMAIN resp.outcomes :
                resp.outcomes[i] = "Success" => i = Len(resp.outcomes)

\* two strategies met bot detection and the third one gave the result
C7_Witness ==
    /\ resp.outcomes = <<"BotDetected", "BotDetected", "Success">>
    /\ resp.log = Strategies /\ resp.spawns = 3
    /\ resp.run.ok /\ resp.status = 200

\* C8: every attempt that ended in BotDetected or TransientFailure and used
\* a proxy has reported that proxy as failed: while the request waits
\* before its next strategy, the proxy has a failure on record.
C8_ProxyFailureReported ==
    \A r \in Slots :
        reqs[r].pc = "backoff" /\ reqs[r].proxy # Null =>
            /\ MapHas(proxyHealth, reqs[r].proxy)
            /\ proxyHealth[reqs[r].proxy].fails >= 1

\* C9: after an attempt that ended in FatalFailure or SpawnFailed no other
\* strategy is tried: the request ends in that step with that attempt's
\* error, with as many processes spawned as strategies tried, and with the
\* lock released.
C9_FatalStopsChain ==
    /\ \A r \in Slots : \A i \in DOMAIN reqs[r].outcomes :
          reqs[r].outcomes[i] \notin Stops
    /\ \A i \in DOMAIN resp.outcomes :
          resp.outcomes[i] \in Stops =>
              /\ i = Len(resp.outcomes) /\ i = resp.spawns
              /\ ~resp.run.ok /\ resp.run = executeYtDlp(resp.ev)
              /\ resp.run.error.message # "BOT_DETECTED"
              /\ resp.status = 500
              /\ resp.ip \notin ipLocks

\* the first strategy failed for good and the request ended after one spawn
C9_Witness ==
    /\ resp.outcomes = <<"FatalFailure">> /\ resp.spawns = 1
    /\ resp.run.error.message = "ERROR: Video unavailable"

C11_NetworkFailureRetried ==
    resp.outcomes # << >> /\ Last(resp.outcomes) = "TransientFailure" =>
        Len(resp.outcomes) = Len(Strategies)

\* C12: an attempt that exits with status zero and empty or blank output
\* does not make the request a success: runSafeYtDlp does not return, and
\* no route answers 200.
C12_EmptyOutputIsFailure ==
    resp.outcomes # << >> /\ Last(resp.outcomes) = "EmptyOutput" =>
        /\ ~resp.run.ok
        /\ resp.status # 200

BotMarkers == {"Sign in to confirm", "bot", "429"}

\* the event is a non-zero exit with a bot marker in the diagnostics
BotExit(ev) ==
    /\ ev.type = "close" /\ ev.code # 0
    /\ \E m \in BotMarkers : Includes(ev.stderr, m)

\* C13: an attempt's error is BOT_DETECTED exactly when its process exited
\* non-zero with one of the markers "Sign in to confirm", "bot", "429" in
\* its diagnostics; not after a zero exit whatever the diagnostics, and not
\* after a non-zero exit without a marker.
C13_BotDetectedExactly ==
    /\ \A r \in Slots :
          reqs[r].pc = "backoff" =>
              (reqs[r].lastError.message = "BOT_DETECTED" <=> BotExit(reqs[r].ev))
    /\ resp.outcomes # << >> =>
          /\ resp.run.error.message = "BOT_DETECTED" <=> BotExit(resp.ev)
          /\ resp.ev.type = "close" /\ resp.ev.code = 0 => resp.run.ok

\* a process that exited with status zero and a sign-in warning on stderr
\* gave the result
C13_Witness ==
    /\ resp.run.ok /\ resp.ev.code = 0
    /\ Includes(resp.ev.stderr, "bot")
    /\ resp.outcomes = <<"Success">>

\* a non-zero exit with the 429 marker was taken as bot detection
C13_WitnessBot ==
    \E r \in Slots :
        /\ reqs[r].pc = "backoff"
        /\ reqs[r].lastError.message = "BOT_DETECTED"
        /\ reqs[r].ev.code = 1 /\ Includes(reqs[r].ev.stderr, "429")

\* the record of `proxy` in the health map h does not keep it from being
\* returned at time t: there is none, or its bannedUntil has passed
Selectable(h, proxy, t) == ~MapHas(h, proxy) \/ t > h[proxy].bannedUntil

\* C14: a proxy that two attempts in a row (no successful attempt between
\* them) have reported is banned until at least 10 minutes after the second
\* report, with its counter at 2 or more, also when it was selected again
\* between the two reports.
C14_BannedAfterTwoFailures ==
    \A p \in Range(PROXY_POOL) :
        /\ Count(reg.streak, p) >= BAN_FAILS
        /\ now <= reg.second[p] + BAN_MS
        => /\ MapHas(proxyHealth, p)
           /\ proxyHealth[p].fails >= BAN_FAILS
           /\ proxyHealth[p].bannedUntil >= reg.second[p] + BAN_MS

\* C15: when some proxy of the pool is fresh or past its ban,
\* getHealthyProxy returns the first such proxy of the shuffle and never
\* one with now <= bannedUntil; the record of the proxy returned that way
\* is deleted and no other record changes.
C15_NoBannedWhileHealthyExists ==
    reg.call.op = "select" /\ reg.call.proxy # Null =>
        LET h == reg.call.before
            p == reg.call.proxy
            order == reg.call.order
        IN /\ (\E q \in Range(PROXY_POOL) : Selectable(h, q, now)) =>
                 /\ Selectable(h, p, now)
                 /\ \E i \in DOMAIN order :
                       /\ order[i] = p
                       /\ \A j \in 1..(i - 1) : ~Selectable(h, order[j], now)
           /\ Selectable(h, p, now) =>
                 /\ ~MapHas(proxyHealth, p)
                 /\ proxyHealth = MapDelete(h, p)

\* the shuffle put a banned proxy first and the fresh one was returned
C15_Witness ==
    /\ reg.call.op = "select" /\ Len(reg.call.order) = 2
    /\ reg.call.proxy = reg.call.order[2]
    /\ MapHas(reg.call.before, reg.call.order[1])
    /\ reg.call.before[reg.call.order[1]].fails >= BAN_FAILS
    /\ now <= reg.call.before[reg.call.order[1]].bannedUntil

\* a proxy whose ban has run out was returned and its record deleted
C15_WitnessExpired ==
    /\ reg.call.op = "select" /\ reg.call.proxy # Null
    /\ MapHas(reg.call.before, reg.call.proxy)
    /\ reg.call.before[reg.call.proxy].fails >= BAN_FAILS
    /\ now > reg.call.before[reg.call.proxy].bannedUntil
    /\ ~MapHas(proxyHealth, reg.call.proxy)

\* C16: when every proxy of the pool is banned (now <= bannedUntil for all
\* of them), getHealthyProxy returns a proxy of the pool whose bannedUntil
\* is the smallest, whatever the shuffle, and changes no record.
C16_ForcedFallbackSoonest ==
    /\ reg.call.op = "select"
    /\ Len(PROXY_POOL) > 0
    /\ \A q \in Range(PROXY_POOL) : ~Selectable(reg.call.before, q, now)
    => /\ reg.call.proxy \in Range(PROXY_POOL)
       /\ \A q \in Range(PROXY_POOL) :
             reg.call.before[reg.call.proxy].bannedUntil
                <= reg.call.before[q].bannedUntil
       /\ proxyHealth = reg.call.before

\* both proxies are banned, the shuffle put the one banned longer first, and
\* the other one was returned
C16_Witness ==
    /\ reg.call.op = "select" /\ Len(reg.call.order) = 2
    /\ \A q \in Range(PROXY_POOL) : ~Selectable(reg.call.before, q, now)
    /\ reg.call.proxy = reg.call.order[2]
    /\ reg.call.before[reg.call.order[2]].bannedUntil
          < reg.call.before[reg.call.order[1]].bannedUntil

\* C18: when an attempt that held a proxy has ended with a result, the
\* proxy has no failure on record.
C18_SuccessResetsFailures ==
    reg.call.op = "success" =>
        \/ ~MapHas(proxyHealth, reg.call.proxy)
        \/ proxyHealth[reg.call.proxy].fails = 0

\* the proxy handed to a process: one of the pool, or none with no pool
ProxyOfPool(proxy) ==
    IF Len(PROXY_POOL) > 0 THEN proxy \in Range(PROXY_POOL) ELSE proxy = Null

\* every proxy of the pool was banned at start-up time and still is
AllBannedAtStart ==
    /\ Len(PROXY_POOL) > 0
    /\ now = StartMs + RegTickMs
    /\ \A q \in Range(PROXY_POOL) :
          /\ MapHas(proxyHealth, q)
          /\ proxyHealth[q].bannedUntil = StartMs + BAN_MS

\* C17: with a pool configured, every process spawned by runSafeYtDlp and
\* by /api/stream-download was given a proxy of the pool, whatever the
\* health records are; a process goes without proxy only when the pool is
\* empty; no request fails with NO_HEALTHY_PROXIES.
C17_NeverWithoutProxy ==
    /\ \A r \in Slots :
          reqs[r].pc \in {"spawned", "backoff"} => ProxyOfPool(reqs[r].proxy)
    /\ \A s \in StreamSlots :
          streams[s].pc # "idle" => ProxyOfPool(streams[s].proxy)
    /\ resp.run.error.message # "NO_HEALTHY_PROXIES"

\* a request admitted after every proxy had been banned has spawned its
\* process with a proxy of the pool, and a stream is running with one
C17_Witness ==
    /\ AllBannedAtStart
    /\ \E r \in Slots :
          /\ reqs[r].pc = "spawned"
          /\ recentRequests[reqs[r].ip].time = now
          /\ reqs[r].proxy \in Range(PROXY_POOL)
    /\ \E s \in StreamSlots :
          streams[s].pc = "piping" /\ streams[s].proxy \in Range(PROXY_POOL)

\* getHealthyProxy has just handed `proxy` to a new process
JustSelected(proxy) ==
    \/ \E r \in Slots :
          /\ reqs'[r].pc = "spawned" /\ reqs'[r].proxy = proxy
          /\ reqs'[r].spawns = reqs[r].spawns + 1
    \/ \E s \in StreamSlots :
          /\ streams[s].pc = "idle"
          /\ streams'[s].pc = "piping" /\ streams'[s].proxy = proxy

CacheHit == resp.status = 200 /\ resp.ep = "video-info" /\ resp.run = NoRun

\* the route of the request that reached the gate in the step just taken
GateEp ==
    IF gate.decision = "ADMIT"
    THEN LET r == CHOOSE r \in Slots :
                      reqs[r].pc = "delay" /\ reqs[r].ip = gate.ip
         IN reqs[r].ep
    ELSE resp.ep

\* C20: /api/video-info answers from the cache only with an entry younger
\* than 60 000 ms; with an entry of that age or older the request goes to
\* the gate as if there were none; and an entry stays in the map, old or
\* not, until a successful fetch of its locator writes a new one.
C20_CacheServedWithinTTL ==
    /\ [](/\ CacheHit =>
               /\ MapHas(videoCache, resp.url)
               /\ now - videoCache[resp.url].time < CACHE_TTL_MS
               /\ resp.body = videoCache[resp.url].data
          /\ gate.decision # "" /\ GateEp = "video-info" =>
               \/ ~MapHas(videoCache, gate.url)
               \/ now - videoCache[gate.url].time >= CACHE_TTL_MS)
    /\ [][\A u \in DOMAIN videoCache :
             /\ u \in DOMAIN videoCache'
             /\ videoCache'[u] # videoCache[u] =>
                   /\ resp'.status = 200 /\ resp'.url = u /\ resp'.run.ok
                   /\ videoCache'[u].time = now]_vars

\* a request found an entry exactly 60 000 ms old, which is still in the
\* map, and was admitted by the gate
C20_Witness ==
    /\ gate.decision = "ADMIT" /\ GateEp = "video-info"
    /\ MapHas(videoCache, gate.url)
    /\ now - videoCache[gate.url].time = CACHE_TTL_MS

\* an entry 30 s old was served
C20_WitnessHit ==
    /\ CacheHit
    /\ now - videoCache[resp.url].time = CacheTickMs

\* a successful fetch of /api/video-info in the step just taken
Fetched == resp.status = 200 /\ resp.ep = "video-info" /\ resp.run.ok

\* the entry of locator u in the cache m is younger than the TTL at time t
Unexpired(m, u, t) == MapHas(m, u) /\ t - m[u].time < CACHE_TTL_MS

\* C21: a successful fetch stores the payload it answers with; a request
\* for a locator with an unexpired entry is answered 200 with that stored
\* payload, with no process spawned and without reaching the gate, also
\* while its client has an extraction in flight or is inside the cooldown;
\* and that step changes neither ipLocks nor recentRequests nor the cache.
C21_CacheHitBypassesGate ==
    /\ [](/\ Fetched =>
               /\ resp.body = Payload(Trim(resp.ev.stdout))
               /\ videoCache[resp.url] = [time |-> now, data |-> resp.body]
          /\ CacheHit =>
               /\ resp.body = videoCache[resp.url].data
               /\ resp.spawns = 0 /\ resp.log = << >>
               /\ gate = NoGate
          /\ resp.ep = "video-info" /\ resp.run.error.message \in GateErrors
             => ~Unexpired(videoCache, resp.url, now))
    /\ [][CacheHit' /\ resp' # resp =>
             /\ ipLocks' = ipLocks
             /\ recentRequests' = recentRequests
             /\ videoCache' = videoCache
             /\ reqs' = reqs]_vars

\* the second document was served from the cache while the client had an
\* extraction for the same locator in flight, admitted at this moment
C21_Witness ==
    /\ CacheHit /\ resp.body = "title B"
    /\ resp.ip \in ipLocks
    /\ \E r \in InFlight(resp.ip) : reqs[r].url = resp.url
    /\ recentRequests[resp.ip] = [url |-> resp.url, time |-> now]

\* a /api/video-info request for a locator whose entry has passed the TTL
\* reached the gate in the step just taken
StaleAtGate ==
    /\ gate.decision # "" /\ GateEp = "video-info"
    /\ MapHas(videoCache, gate.url)
    /\ now - videoCache[gate.url].time >= CACHE_TTL_MS

\* C22 as stated: a metadata request for a locator whose entry has passed
\* the TTL is admitted and goes on to spawn its process; it is neither
\* answered from the cache nor rejected.
C22_RefetchAfterTTL ==
    /\ CacheHit => Unexpired(videoCache, resp.url, now)
    /\ StaleAtGate => gate.decision = "ADMIT"

\* C22 amended: a metadata request for a locator whose entry has passed the
\* TTL is not answered from the cache but goes to the gate; the gate admits
\* it when its client has no extraction in flight and has sent no gated
\* request for that locator in the last 15 s, and an admitted request
\* spawns its process as the next thing it does; otherwise the gate may
\* reject it as QUEUE_FULL or RATE_LIMIT_DUPLICATE (429).
C22_RefetchAfterTTLUnlessRejected ==
    /\ [](/\ CacheHit => Unexpired(videoCache, resp.url, now)
          /\ StaleAtGate =>
               /\ ~gate.busy /\ (gate.sinceSame = -1
                                 \/ gate.sinceSame >= COOLDOWN_MS)
                  => gate.decision = "ADMIT"
               /\ gate.decision = "ADMIT" =>
                     \E r \in InFlight(gate.ip) :
                         /\ reqs[r].pc = "delay" /\ reqs[r].url = gate.url
                         /\ reqs[r].spawns = 0
               /\ gate.decision # "ADMIT" =>
                     /\ gate.decision \in GateErrors
                     /\ resp.status = 429 /\ resp.spawns = 0)
    /\ [][\A r \in Slots :
             reqs[r].pc = "delay" /\ reqs'[r] # reqs[r] =>
                 reqs'[r].pc = "spawned" /\ reqs'[r].spawns = 1]_vars

\* the request for a locator whose entry is exactly 60 000 ms old has
\* spawned its process
C22_Witness ==
    \E r \in Slots :
        /\ reqs[r].pc = "spawned" /\ reqs[r].ep = "video-info"
        /\ reqs[r].spawns = 1
        /\ MapHas(videoCache, reqs[r].url)
        /\ now - videoCache[reqs[r].url].time = CACHE_TTL_MS
        /\ recentRequests[reqs[r].ip].time = now

\* ------------------------------------------------ the three routes together


\* C23: only /api/video-info touches the metadata cache. The cache changes
\* only in the step in which a video-info fetch answers 200, and then by the
\* entry of that answer; a get-link answer other than the 400 and the gate's
\* rejections comes from a process spawned for that request, its 200 carries
\* the first line of that process's output, also when the cache holds a
\* fresh entry for the locator; an admitted get-link request leaves its
\* delay only by spawning its first process (or with the server); and a
\* stream start spawns its own process and answers nothing from the cache.
C23_CacheOnlyForVideoInfo ==
    /\ [](/\ resp.ep = "get-link" /\ resp.status # 400
             /\ resp.run.error.message \notin GateErrors
             => /\ resp.spawns >= 1
                /\ resp.ev.type # ""
                /\ resp.run # NoRun
          /\ resp.ep = "get-link" /\ resp.status = 200
             => /\ resp.run.ok
                /\ resp.ev.type = "close" /\ resp.ev.code = 0
                /\ resp.body = FirstLine(Trim(resp.ev.stdout))
          /\ resp.ep = "stream-download"
             => /\ resp.run = NoRun
                /\ resp.body \in {"Missing parameters", "spawned",
                                  "client closed", "stream ended",
                                  "uncaught error"}
                /\ resp.body = "spawned" => resp.spawns = 1)
    /\ [][/\ videoCache' # videoCache
             => /\ Fetched'
                /\ videoCache' = MapSet(videoCache, resp'.url,
                                        [time |-> now, data |-> resp'.body])
          /\ \A r \in Slots :
                reqs[r].pc = "delay" /\ reqs[r].ep = "get-link"
                /\ reqs'[r] # reqs[r]
                => \/ reqs'[r].pc = "spawned" /\ reqs'[r].spawns = 1
                   \/ reqs'[r].pc = "down"]_vars

C23_Witness ==
    /\ resp.ep = "get-link" /\ resp.status = 200 /\ resp.spawns = 1
    /\ resp.body = "https://v/1"
    /\ Unexpired(videoCache, resp.url, now)
    /\ \E s \in StreamSlots : streams[s].pc = "piping"
                              /\ streams[s].url = resp.url

\* C24: when the caller of a stream goes away, the process of that stream is
\* killed in the same step: no stream has its caller gone and its process
\* still piping, and a stream whose caller is gone is eventually released.
C24_DisconnectKillsStream ==
    /\ [](\A s \in StreamSlots :
             streams[s].client = "gone" => streams[s].pc = "killed")
    /\ [][\A s \in StreamSlots :
             streams[s].client = "connected" /\ streams'[s].client = "gone"
             => streams'[s].pc = "killed"]_vars
    /\ \A s \in StreamSlots :
          (streams[s].client = "gone")
             ~> (streams[s].pc \notin {"piping", "killed"})

C24_Witness ==
    \E s \in StreamSlots :
        /\ streams[s].client = "gone" /\ streams[s].pc = "killed"
        /\ resp.body = "client closed" /\ resp.url = streams[s].url

\* the step just taken was the stream handler: a refusal or a start
StreamHandled == resp.ep = "stream-download"
                 /\ resp.body \in {"Missing parameters", "spawned"}

\* C25: /api/stream-download goes through neither the gate nor the cache.
\* Its only refusal is the 400 for missing parameters, never a 429; its
\* handler calls neither runSafeYtDlp nor the gate, and it starts its
\* process also while its caller holds the lock or is inside the cooldown
\* for that locator; and the handler's step changes none of ipLocks,
\* recentRequests, videoCache and the invocations of the gated routes.
C25_StreamBypassesGate ==
    /\ [](resp.ep = "stream-download" =>
             /\ resp.status \in {0, 400}
             /\ resp.status = 400 <=> resp.body = "Missing parameters"
             /\ resp.run = NoRun
             /\ gate = NoGate)
    /\ [][StreamHandled' =>
             /\ ipLocks' = ipLocks /\ recentRequests' = recentRequests
             /\ videoCache' = videoCache /\ reqs' = reqs
             /\ seen' = seen]_vars
    /\ [][\A s \in StreamSlots :
             streams[s].pc = "idle" /\ streams'[s].pc = "piping"
             => resp'.body = "spawned" /\ resp'.spawns = 1
                /\ resp'.url = streams'[s].url]_vars

C25_Witness ==
    /\ resp.ep = "stream-download" /\ resp.body = "spawned"
    /\ resp.ip \in ipLocks
    /\ \E r \in InFlight(resp.ip) : reqs[r].url = resp.url
    /\ recentRequests[resp.ip] = [url |-> resp.url, time |-> now]
    /\ \E s \in StreamSlots : streams[s].pc = "piping"
                              /\ streams[s].ip = resp.ip

\* the status both routes give a fatal failure of the extraction
FatalStatus == 500

\* C26: every error of the taxonomy has its own status on both routes: a
\* request turned away by the cooldown (RATE_LIMIT_DUPLICATE) or failed on
\* bot detection (BOT_DETECTED) is never answered with the status of a
\* fatal failure of the extraction.
C26_DistinctStatusPerError ==
    resp.run # NoRun /\ ~resp.run.ok
    /\ resp.run.error.message \in {"RATE_LIMIT_DUPLICATE", "BOT_DETECTED"}
    => resp.status # FatalStatus

\* C27: a failure of a stream's process, a failed start included, ends that
\* stream and nothing else: the server is never brought down, so no
\* invocation and no stream is lost with it.
C27_StreamFailureContained ==
    /\ \A r \in Slots : reqs[r].pc # "down"
    /\ \A s \in StreamSlots : streams[s].pc # "down"

\* C28: the gate looks at its caller's own lock and own last request only.
\* A request is answered QUEUE_FULL only while an extraction of its own
\* client is in flight, RATE_LIMIT_DUPLICATE only after a gated request of
\* its own client for that locator less than 15 s before, and the first
\* gated request of a client is admitted whatever the other clients are
\* doing; the gate's step changes no lock and no last-request record of
\* another client; and two clients can have extractions in flight together.
C28_AdmissionPerClient ==
    /\ [](gate.decision # "" =>
             /\ gate.decision = "QUEUE_FULL" =>
                   /\ InFlight(gate.ip) # {}
                   /\ gate.ip \in ipLocks
             /\ gate.decision = "RATE_LIMIT_DUPLICATE" =>
                   /\ InFlight(gate.ip) = {}
                   /\ gate.sinceSame >= 0 /\ gate.sinceSame < COOLDOWN_MS
             /\ gate.decision = "ADMIT" =>
                   /\ Cardinality(InFlight(gate.ip)) = 1
                   /\ recentRequests[gate.ip] =
                         [url |-> gate.url, time |-> now]
             /\ gate.sinceLast = -1 => gate.decision = "ADMIT")
    /\ [][gate'.decision # "" =>
             \A d \in PairClients \ {gate'.ip} :
                /\ d \in ipLocks' <=> d \in ipLocks
                /\ MapHas(recentRequests', d) <=> MapHas(recentRequests, d)
                /\ MapHas(recentRequests, d) =>
                      recentRequests'[d] = recentRequests[d]]_vars

C28_Witness ==
    /\ gate.decision = "ADMIT" /\ gate.ip = "c2"
    /\ ipLocks = {"c1", "c2"}
    /\ \E r \in InFlight("c1") : reqs[r].pc = "spawned"
                                 /\ reqs[r].url = gate.url
    /\ recentRequests["c1"] = [url |-> gate.url, time |-> now]

\* the chain of the response just written had come to its end: a result,
\* an error that is not retried, or the last strategy
ChainEnded ==
    \/ resp.run.ok
    \/ ~resp.run.ok /\ ~ShouldRetry(resp.run.error)
    \/ resp.spawns = Len(Strategies)

\* C29: a caller of a gated route that goes away cancels nothing. The step
\* of its going changes nothing but the fact; its request keeps the lock
\* while in flight, so a further request of that client is answered
\* QUEUE_FULL; and an invocation leaves flight only in the step that
\* settles its chain at the chain's end, which also releases the lock.
C29_NoCancelOnDisconnect ==
    /\ [](/\ \A r \in Slots :
                reqs[r].pc # "idle" /\ reqs[r].gone
                => reqs[r].ip \in ipLocks /\ ChainInOrder(reqs[r])
          /\ gate.decision # ""
             /\ (\E r \in InFlight(gate.ip) : reqs[r].gone)
             => gate.decision = "QUEUE_FULL" /\ resp.status = 429
          /\ resp.gone => /\ resp.run # NoRun /\ resp.spawns >= 1
                          /\ ChainEnded
                          /\ resp.ip \notin ipLocks)
    /\ [][\A r \in Slots :
             /\ ~reqs[r].gone /\ reqs'[r].gone
                => /\ reqs'[r] = [reqs[r] EXCEPT !.gone = TRUE]
                   /\ ipLocks' = ipLocks
             /\ reqs[r].pc # "idle" /\ reqs'[r].pc = "idle"
                => /\ resp'.ip = reqs[r].ip /\ resp'.run # NoRun
                   /\ resp'.gone = reqs[r].gone
                   /\ resp'.spawns >= reqs[r].spawns
             /\ reqs[r].gone /\ reqs'[r].pc # "idle"
                => /\ reqs'[r].gone
                   /\ reqs'[r].spawns >= reqs[r].spawns]_vars

C29_Witness ==
    /\ gate.decision = "QUEUE_FULL" /\ resp.status = 429
    /\ \E r \in InFlight(gate.ip) :
          /\ reqs[r].gone /\ reqs[r].pc = "spawned"
          /\ reqs[r].spawns = Len(Strategies)

\* C30: the locator is the last argument of every yt-dlp invocation: of
\* each attempt of the chain, on either route, with or without a proxy and
\* a cookies file, and of each stream's process.
C30_LocatorIsLastArgument ==
    /\ \A r \in Slots :
          reqs[r].pc = "spawned" =>
             \A cookies \in BOOLEAN :
                Last(AttemptArgs(reqs[r].idx, reqs[r].proxy, cookies,
                                 CommandFlags(reqs[r].ep, "18"),
                                 reqs[r].url)) = reqs[r].url
    /\ \A s \in StreamSlots :
          streams[s].pc \in {"piping", "killed"} =>
             Last(streams[s].args) = streams[s].url

\* the characters the download file name may consist of
AllowedChars == LowerAZ \cup UpperAZ \cup Digits09 \cup {"_", "-"}

\* C31: the file name announced for a stream is the title with every
\* character outside [A-Za-z0-9_-] replaced by '_', character by character
\* and so of the title's length, and it is "video" for an absent or empty
\* title; no quote, line break or path separator is in it.
C31_FilenameSanitized ==
    \A s \in StreamSlots :
        streams[s].pc \in {"piping", "killed"} =>
            LET title == streams[s].title
                filename == streams[s].filename
            IN /\ title = << >> => filename = <<"v", "i", "d", "e", "o">>
               /\ title # << >> =>
                     /\ Len(filename) = Len(title)
                     /\ \A i \in DOMAIN title :
                           filename[i] = IF title[i] \in AllowedChars
                                         THEN title[i] ELSE "_"
               /\ \A i \in DOMAIN filename :
                     /\ filename[i] \in AllowedChars
                     /\ filename[i] \notin {"\"", "\n", "\r", "/", "\\"}

C31_Witness ==
    \E s \in StreamSlots :
        /\ streams[s].pc = "piping"
        /\ streams[s].title = <<"a", "\"", "\n">>
        /\ streams[s].filename = <<"a", "_", "_">>

\* C32: a rejection by the gate touches no lock. The step that answers
\* QUEUE_FULL or RATE_LIMIT_DUPLICATE leaves ipLocks and every invocation
\* in flight as they were, so the client turned away as busy still holds
\* its lock for its running extraction; and a request that meets both its
\* client's lock and the cooldown for its locator is answered QUEUE_FULL.
C32_RejectionKeepsLocks ==
    /\ [](/\ gate.decision = "QUEUE_FULL" =>
                /\ gate.ip \in ipLocks /\ InFlight(gate.ip) # {}
          /\ gate.decision = "RATE_LIMIT_DUPLICATE" =>
                /\ gate.ip \notin ipLocks /\ InFlight(gate.ip) = {}
          /\ gate.busy /\ gate.sinceSame >= 0 /\ gate.sinceSame < COOLDOWN_MS
             => gate.decision = "QUEUE_FULL")
    /\ [][gate'.decision \in GateErrors =>
             /\ ipLocks' = ipLocks
             /\ reqs' = reqs]_vars

C32_Witness ==
    /\ gate.decision = "QUEUE_FULL" /\ gate.busy
    /\ gate.lastUrl = gate.url /\ gate.sinceSame = 0
    /\ gate.ip \in ipLocks
    /\ \E r \in InFlight(gate.ip) : reqs[r].pc = "spawned"
                                    /\ reqs[r].url = gate.url
    /\ recentRequests[gate.ip] = [url |-> gate.url, time |-> now]

\* the record of client ip in recentRequests is for locator url, is younger
\* than the cooldown, and was written by a request of the route other than ep
FreshRecordOfOtherRoute(ip, url, ep) ==
    /\ MapHas(recentRequests, ip)
    /\ recentRequests[ip].url = url
    /\ now - recentRequests[ip].time < COOLDOWN_MS
    /\ MapHas(seen, ip) /\ seen[ip].via \notin {"", ep}

\* C33 as stated: a request of one route for U that arrives less than 15 s
\* after the client's admitted request of the other route for U is answered
\* RATE_LIMIT_DUPLICATE, with no process spawned: a get-link after a
\* video-info, and a video-info after a get-link.
C33_CooldownSharedByRoutes ==
    [][/\ gate'.decision # ""
          /\ FreshRecordOfOtherRoute(gate'.ip, gate'.url, GateEp')
          => /\ gate'.decision = "RATE_LIMIT_DUPLICATE"
             /\ resp'.spawns = 0
       /\ ~(CacheHit'
            /\ FreshRecordOfOtherRoute(resp'.ip, resp'.url, "video-info"))]_vars

\* C33 amended: recentRequests is keyed by client and compared by locator,
\* whatever the route. A request of one route for U that reaches the gate
\* while the client's record, written by the other route, is for U and
\* younger than 15 s is turned away with no process spawned and the record
\* kept: as RATE_LIMIT_DUPLICATE when the client has no extraction in
\* flight, as QUEUE_FULL when it has; and a video-info request for U that
\* finds an unexpired cache entry is answered from it, cooldown or not.
C33_CooldownSharedUnlessBusyOrCached ==
    /\ [][/\ gate'.decision # ""
             /\ FreshRecordOfOtherRoute(gate'.ip, gate'.url, GateEp')
             => /\ gate'.decision =
                      IF gate'.ip \in ipLocks THEN "QUEUE_FULL"
                      ELSE "RATE_LIMIT_DUPLICATE"
                /\ resp'.spawns = 0 /\ resp'.log = << >>
                /\ resp'.run.error.message = gate'.decision
                /\ recentRequests' = recentRequests
                /\ reqs' = reqs
          /\ CacheHit'
             /\ FreshRecordOfOtherRoute(resp'.ip, resp'.url, "video-info")
             => /\ Unexpired(videoCache, resp'.url, now)
                /\ resp'.spawns = 0
                /\ recentRequests' = recentRequests]_vars
    /\ [](gate.decision # "" /\ GateEp = "video-info"
          => ~Unexpired(videoCache, gate.url, now))

C33_Witness ==
    /\ gate.decision = "RATE_LIMIT_DUPLICATE" /\ GateEp = "get-link"
    /\ resp.status = 500 /\ resp.spawns = 0
    /\ seen[gate.ip].via = "video-info"
    /\ recentRequests[gate.ip].url = gate.url
    /\ now - recentRequests[gate.ip].time < COOLDOWN_MS
    /\ Unexpired(videoCache, gate.url, now)

C33_WitnessVideoInfo ==
    /\ gate.decision = "RATE_LIMIT_DUPLICATE" /\ GateEp = "video-info"
    /\ resp.status = 429 /\ resp.spawns = 0
    /\ seen[gate.ip].via = "get-link"
    /\ recentRequests[gate.ip].url = gate.url

\* C34: a ban lasts 10 minutes from the failure that set it: no step moves
\* the end of a ban that is still running to a later time.
C34_BanNotExtended ==
    [][\A p \in DOMAIN proxyHealth :
          /\ proxyHealth[p].fails >= BAN_FAILS
          /\ now <= proxyHealth[p].bannedUntil
          /\ MapHas(proxyHealth', p)
          => proxyHealth'[p].bannedUntil <= proxyHealth[p].bannedUntil]_vars

\* the payloads a successful fetch can store
Payloads == {Payload(d) : d \in JsonDocs}

\* C35: only a video-info fetch that succeeded writes the cache. A step
\* that changes the cache is the 200 answer of a video-info whose process
\* exited 0 with a JSON document, and it writes the entry of that locator
\* only; a video-info answered with anything but 200 (the gate's rejections,
\* bot detection, a fatal or a spawn error, output that is no JSON) leaves
\* the cache as it was, an expired entry of its locator included; so every
\* entry, and every answer from the cache, is the payload of a document.
C35_CacheWrittenOnlyOnSuccess ==
    /\ [](/\ \A u \in DOMAIN videoCache : videoCache[u].data \in Payloads
          /\ CacheHit => resp.body \in Payloads)
    /\ [][/\ videoCache' # videoCache
             => /\ Fetched'
                /\ resp'.ev.type = "close" /\ resp'.ev.code = 0
                /\ Trim(resp'.ev.stdout) \in JsonDocs
                /\ videoCache' = MapSet(videoCache, resp'.url,
                                        [time |-> now, data |-> resp'.body])
          /\ resp'.ep = "video-info" /\ resp'.status \notin {0, 200}
             => videoCache' = videoCache]_vars

C35_Witness ==
    /\ resp.ep = "video-info" /\ resp.status = 500
    /\ resp.run.ok /\ resp.run.value \notin JsonDocs
    /\ MapHas(videoCache, resp.url)
    /\ now - videoCache[resp.url].time >= CACHE_TTL_MS
    /\ videoCache[resp.url].data = "title B"

====
